---- MODULE Spec2Model ----
(***************************************************************************)
(* Bike rental system (bikerental.py): the three persisted collections     *)
(* users.json, bikes.json, bookings.json and the menu operations that load *)
(* a collection, change it and save it back.  Every operation is one       *)
(* atomic step: the program is single threaded and each handler loads,     *)
(* mutates and saves before it returns to the menu.                        *)
(***************************************************************************)
EXTENDS Integers, Sequences, FiniteSets, TLC

VARIABLES
    users,      \* content of users.json: sequence of user records
    bikes,      \* content of bikes.json: sequence of bike records
    bookings,   \* content of bookings.json: sequence of booking records
    session     \* who is at a dashboard: [username, user_type], "none" at the main menu

vars == <<users, bikes, bookings, session>>

-----------------------------------------------------------------------------
(* Bounds of the model *)

MaxBookings == 1    \* book_bike is not taken once this many bookings exist
MaxBikes == 6       \* add_bike is not taken once this many bikes exist

-----------------------------------------------------------------------------
(* Records *)

\* Admin.__init__ / User.to_dict
Admin(username, password) ==
    [username |-> username, password |-> password, user_type |-> "admin"]

\* Customer.__init__ / Customer.to_dict
Customer(username, password, name, phone, email) ==
    [username |-> username, password |-> password, user_type |-> "customer",
     name |-> name, phone |-> phone, email |-> email]

\* Bike.__init__
Bike(bike_id, name, color, plate_number, price_per_day, location, available) ==
    [bike_id |-> bike_id, name |-> name, color |-> color,
     plate_number |-> plate_number, price_per_day |-> price_per_day,
     location |-> location, available |-> available]

\* Booking.__init__
Booking(booking_id, customer_username, bike_id, pickup_location, from_date, to_date, total_amount, status) ==
    [booking_id |-> booking_id, customer_username |-> customer_username,
     bike_id |-> bike_id, pickup_location |-> pickup_location,
     from_date |-> from_date, to_date |-> to_date,
     total_amount |-> total_amount, status |-> status]

-----------------------------------------------------------------------------
(* Text helpers.  Strings are opaque in TLA+, so str.lower, str.strip,     *)
(* float() and int() are given by their value on the texts the model types *)
(* in; dates are <<year, month, day>> triples parsed as strptime does.     *)

\* str.lower()
Lower(s) ==
    CASE s \in {"Downtown", "DOWNTOWN", "downtown"} -> "downtown"
      [] s \in {"Uptown", "UPTOWN", "uptown"} -> "uptown"
      [] s \in {"Suburbs", "suburbs"} -> "suburbs"
      [] s \in {"YES", "Yes", "yes"} -> "yes"
      [] OTHER -> s

\* str.strip()
Strip(s) ==
    CASE s = " " -> ""
      [] s = " downtown " -> "downtown"
      [] OTHER -> s

\* float(text): ok = FALSE stands for ValueError
ParseFloat(s) ==
    CASE s = "40" -> [ok |-> TRUE, val |-> 40]
      [] s = "40.0" -> [ok |-> TRUE, val |-> 40]
      [] s = "-5" -> [ok |-> TRUE, val |-> 0 - 5]
      [] s = "0" -> [ok |-> TRUE, val |-> 0]
      [] OTHER -> [ok |-> FALSE, val |-> 0]

\* int(text): ok = FALSE stands for ValueError
ParseInt(s) ==
    CASE s = "0" -> [ok |-> TRUE, val |-> 0]
      [] s = "1" -> [ok |-> TRUE, val |-> 1]
      [] s = "2" -> [ok |-> TRUE, val |-> 2]
      [] s = "3" -> [ok |-> TRUE, val |-> 3]
      [] s = "9" -> [ok |-> TRUE, val |-> 9]
      [] OTHER -> [ok |-> FALSE, val |-> 0]

IsLeap(y) == (y % 4 = 0) /\ ((y % 100 # 0) \/ (y % 400 = 0))

DaysInMonth(y, m) ==
    CASE m \in {1, 3, 5, 7, 8, 10, 12} -> 31
      [] m \in {4, 6, 9, 11} -> 30
      [] OTHER -> IF IsLeap(y) THEN 29 ELSE 28

RECURSIVE DaysBeforeMonth(_, _)
DaysBeforeMonth(y, m) ==
    IF m <= 1 THEN 0 ELSE DaysBeforeMonth(y, m - 1) + DaysInMonth(y, m - 1)

\* datetime.toordinal(): days since 0001-01-01, which is day 1
Ordinal(d) ==
    LET y == d[1] - 1
    IN  y * 365 + (y \div 4) - (y \div 100) + (y \div 400)
          + DaysBeforeMonth(d[1], d[2]) + d[3]

\* datetime.strptime(text, "%Y-%m-%d"): ok = FALSE stands for ValueError;
\* the result is midnight of that day
Strptime(d) ==
    IF d[2] \in 1..12 /\ d[3] \in 1..DaysInMonth(d[1], d[2])
    THEN [ok |-> TRUE, day |-> Ordinal(d), tod |-> 0]
    ELSE [ok |-> FALSE, day |-> 0, tod |-> 0]

\* datetime < datetime
Before(a, b) == a.day < b.day \/ (a.day = b.day /\ a.tod < b.tod)

-----------------------------------------------------------------------------
(* Sequence helpers *)

Range(s) == {s[i] : i \in DOMAIN s}

\* the positions of list s, in order; a list comprehension over s is SelectSeq
\* over them, which keeps the order of s
Indexes(s) == [ix \in DOMAIN s |-> ix]

\* next((x for x in ... if ...), None) over the matching positions: the first
\* of them, 0 for None
First(matching) == IF matching = <<>> THEN 0 ELSE Head(matching)

-----------------------------------------------------------------------------
(* What the users type and what the environment returns *)

\* register_customer: two new usernames and the username of the default admin
RegisterInputs == {<<"alice", "pw">>, <<"bob", "pw">>, <<"admin", "pw">>}

LoginInputs == {<<"admin", "admin123">>, <<"alice", "pw">>, <<"bob", "pw">>,
                <<"bob", "admin123">>}

\* datetime.datetime.now() when book_bike validates the dates: the day before
\* 2024-01-01, its first instant, later that day, and the day after
Nows == { [day |-> Ordinal(<<2023, 12, 31>>), tod |-> 1],
          [day |-> Ordinal(<<2024, 1, 1>>), tod |-> 0],
          [day |-> Ordinal(<<2024, 1, 1>>), tod |-> 1],
          [day |-> Ordinal(<<2024, 1, 2>>), tod |-> 0] }

\* book_bike: a plain request and the requests that differ from it in one answer
PlainRequest ==
    [pickup |-> " downtown ", from_date |-> <<2024, 1, 1>>, to_date |-> <<2024, 1, 3>>,
     number |-> "1", confirm |-> "YES"]

BookRequests ==
    { PlainRequest,
      [PlainRequest EXCEPT !.pickup = "Nowhere"],
      [PlainRequest EXCEPT !.from_date = <<2024, 2, 30>>],
      [PlainRequest EXCEPT !.to_date = <<2023, 12, 31>>],
      [PlainRequest EXCEPT !.number = "x"],
      [PlainRequest EXCEPT !.number = "9"],
      [PlainRequest EXCEPT !.confirm = "no"] }

\* the plain request at every instant, the others the day before
BookAttempts ==
    {<<PlainRequest, now>> : now \in Nows}
      \cup {<<r, [day |-> Ordinal(<<2023, 12, 31>>), tod |-> 1]>> : r \in BookRequests}

BookingIdInputs == {"BKG000001", "BKG000002", "BKG999999"}
\* make_payment: a payment method, Cancel, and a choice that is not on the menu
PaymentInputs == {"1", "4", "9"}
ManageInputs == {<<"1", "1">>, <<"1", "2">>, <<"1", "3">>, <<"0", "1">>,
                 <<"9", "1">>, <<"x", "1">>}
BikeIdInputs == {"BIKE0001", "BIKE9999"}
\* update_bike: the answers to the price prompt that UpdateInputs uses
PriceInputs == {"", "40", "abc"}
\* update_bike: the answers to the five prompts (name, color, plate number,
\* price, location): nothing answered, only a price that float() rejects, and a
\* new name, price and location
UpdateInputs ==
    { <<"", " ", "", "", "">>,
      <<"", " ", "", "abc", "">>,
      <<"Yamaha R15 V4", " ", "", "40", "DOWNTOWN">> }
\* add_bike: the answers to the price prompt that AddAttempts uses
AddPriceInputs == {"40", "abc", "-5"}
\* add_bike: the id random.choices produced and the price typed
AddAttempts == {<<"BIKE0001", "40">>, <<"BIKE0006", "-5">>, <<"BIKE0006", "abc">>}
ConfirmInputs == {"YES", "no"}

\* 'BIKE' + random.choices(string.digits, k=4): one value that is taken, one free
RandomBikeIds == {"BIKE0001", "BIKE0006"}

\* 'BKG' + random.choices(string.digits, k=6)
RandomBookingIds == {"BKG000001", "BKG000002"}

-----------------------------------------------------------------------------
(* BikeRentalSystem.initialize_files on an empty directory *)

sample_bikes ==
    << Bike("BIKE0001", "Yamaha R15", "Blue", "MH01AB1234", 25, "Downtown", TRUE),
       Bike("BIKE0002", "Royal Enfield Classic 350", "Black", "MH02CD5678", 35, "Uptown", TRUE),
       Bike("BIKE0003", "Honda CB Shine", "Red", "MH03EF9012", 20, "Suburbs", TRUE),
       Bike("BIKE0004", "Bajaj Pulsar 150", "White", "MH04GH3456", 22, "Downtown", TRUE),
       Bike("BIKE0005", "KTM Duke 200", "Orange", "MH05IJ7890", 30, "Uptown", TRUE) >>

\* self.username and self.user_type of the object whose display_menu runs
Session(user) == [username |-> user.username, user_type |-> user.user_type]

MainMenu == [username |-> "", user_type |-> "none"]

Init ==
    /\ users = <<Admin("admin", "admin123")>>
    /\ bikes = sample_bikes
    /\ bookings = <<>>
    /\ session = MainMenu

-----------------------------------------------------------------------------
(* Main menu: BikeRentalSystem.run *)

\* a slip: only the customers are searched for the username
UsernameExistsAmongCustomers(username) ==
    \E i \in DOMAIN users : /\ users[i].user_type = "customer"
                             /\ users[i].username = username

\* register_customer, "Check if username exists"
UsernameExists(username) == \E i \in DOMAIN users : users[i].username = username

\* BikeRentalSystem.register_customer, then customer.display_menu()
RegisterCustomer(username_in, password_in) ==
    LET customer == Customer(Strip(username_in), Strip(password_in), "", "", "")
    IN  /\ session = MainMenu
        /\ IF UsernameExists(customer.username)
           THEN UNCHANGED <<users, session>>
           ELSE /\ users' = Append(users, customer)
                /\ session' = Session(customer)
        /\ UNCHANGED <<bikes, bookings>>

\* BikeRentalSystem.login, then user.display_menu()
Login(username_in, password_in) ==
    LET i == First(SelectSeq(Indexes(users), LAMBDA ix :
                       /\ users[ix].username = Strip(username_in)
                       /\ users[ix].password = Strip(password_in)))
    IN  /\ session = MainMenu
        /\ session' = IF i = 0 THEN MainMenu ELSE Session(users[i])
        /\ UNCHANGED <<users, bikes, bookings>>

\* choice '6' of Customer.display_menu, choice '8' of Admin.display_menu
Logout ==
    /\ session # MainMenu
    /\ session' = MainMenu
    /\ UNCHANGED <<users, bikes, bookings>>

-----------------------------------------------------------------------------
(* Customer dashboard *)

\* a slip: the date order is not checked
DateCheckNoOrder(from_date, to_date, now) ==
    LET from_dt == Strptime(from_date)
        to_dt == Strptime(to_date)
    IN  IF ~from_dt.ok \/ ~to_dt.ok THEN "Invalid date format"
        ELSE IF Before(from_dt, now) THEN "From date cannot be in the past"
        ELSE "ok"

\* book_bike, "Validate dates": the message of the branch taken, "ok" when the
\* dates pass
DateCheck(from_date, to_date, now) ==
    LET from_dt == Strptime(from_date)
        to_dt == Strptime(to_date)
    IN  IF ~from_dt.ok \/ ~to_dt.ok THEN "Invalid date format"
        ELSE IF Before(to_dt, from_dt) THEN "From date must be before To date"
        ELSE IF Before(from_dt, now) THEN "From date cannot be in the past"
        ELSE "ok"

\* a slip: the location filter is left out
AvailableBikesAnywhere(pickup_location) ==
    SelectSeq(Indexes(bikes), LAMBDA ix : bikes[ix].available)

\* a change of behaviour: a bike with a Pending booking is no longer offered
AvailableBikesUnbooked(pickup_location) ==
    SelectSeq(Indexes(bikes), LAMBDA ix : LET bike == bikes[ix] IN
        /\ bike.available
        /\ Lower(bike.location) = Lower(pickup_location)
        /\ ~\E k \in DOMAIN bookings : /\ bookings[k].bike_id = bike.bike_id
                                        /\ bookings[k].status = "Pending")

\* book_bike, "Get available bikes in location": indexes into bikes
AvailableBikes(pickup_location) ==
    SelectSeq(Indexes(bikes), LAMBDA ix :
                /\ bikes[ix].available
                /\ Lower(bikes[ix].location) = Lower(pickup_location))

\* a slip: the last day is not counted
RentalDaysExclusive(from_date, to_date) ==
    Strptime(to_date).day - Strptime(from_date).day

\* book_bike, "Calculate rental days and amount"
RentalDays(from_date, to_date) ==
    Strptime(to_date).day - Strptime(from_date).day + 1

TotalAmount(price_per_day, from_date, to_date) ==
    price_per_day * RentalDays(from_date, to_date)

\* book_bike up to the point where the booking is built: the message printed
\* and the index in bikes of selected_bike (0 when the handler returned early)
BookOutcome(r, now) ==
    LET dates == DateCheck(r.from_date, r.to_date, now)
        available_bikes == AvailableBikes(Strip(r.pickup))
        bike_choice == ParseInt(r.number)
    IN  IF dates # "ok" THEN [msg |-> dates, bike |-> 0]
        ELSE IF available_bikes = <<>> THEN [msg |-> "No bikes available", bike |-> 0]
        ELSE IF ~bike_choice.ok THEN [msg |-> "Invalid input", bike |-> 0]
        ELSE IF ~(1 <= bike_choice.val /\ bike_choice.val <= Len(available_bikes))
             THEN [msg |-> "Invalid bike number", bike |-> 0]
        ELSE IF Lower(r.confirm) # "yes" THEN [msg |-> "Booking cancelled", bike |-> 0]
        ELSE [msg |-> "Booking successful", bike |-> available_bikes[bike_choice.val]]

\* book_bike, "Create booking", for the generated booking_id
NewBooking(r, selected_bike, booking_id) ==
    Booking(booking_id, session.username, selected_bike.bike_id, Strip(r.pickup),
            r.from_date, r.to_date,
            TotalAmount(selected_bike.price_per_day, r.from_date, r.to_date),
            "Pending")

\* Customer.book_bike, with BikeRentalSystem.save_booking; not taken once
\* limit bookings exist
BookBikeUpTo(limit, r, now) ==
    LET o == BookOutcome(r, now)
    IN  /\ session.user_type = "customer"
        /\ IF o.bike = 0
           THEN UNCHANGED bookings
           ELSE /\ Len(bookings) < limit
                /\ \E booking_id \in RandomBookingIds :
                       bookings' = Append(bookings, NewBooking(r, bikes[o.bike], booking_id))
        /\ UNCHANGED <<users, bikes, session>>

BookBike(r, now) == BookBikeUpTo(MaxBookings, r, now)

BookBikeWide(r, now) == BookBikeUpTo(MaxBookings + 1, r, now)

\* view_booking_status / make_payment: the booking a customer gets for an id,
\* the first one with this id that is their own; 0 when there is none
OwnBooking(username, booking_id) ==
    First(SelectSeq(Indexes(bookings), LAMBDA ix :
              /\ bookings[ix].booking_id = booking_id
              /\ bookings[ix].customer_username = username))

\* view_booking_status: what is printed
ViewOutcome(username, booking_id_in) ==
    LET i == OwnBooking(username, Strip(booking_id_in))
    IN  IF i = 0 THEN "No booking found" ELSE bookings[i].status

\* Customer.view_booking_status
ViewBookingStatus(booking_id_in) ==
    /\ session.user_type = "customer"
    /\ ViewOutcome(session.username, booking_id_in) \in STRING
    /\ UNCHANGED <<users, bikes, bookings, session>>

\* a slip: the status of the booking is not checked
PaymentOutcomeAnyStatus(username, booking_id_in, choice) ==
    LET i == OwnBooking(username, Strip(booking_id_in))
    IN  IF i = 0 THEN "No booking found"
        ELSE IF choice \notin {"1", "2", "3"} THEN "Payment cancelled"
        ELSE "Payment successful"

\* a slip: every choice, Cancel included, is taken as a payment method
PaymentOutcomeAnyChoice(username, booking_id_in, choice) ==
    LET i == OwnBooking(username, Strip(booking_id_in))
    IN  IF i = 0 THEN "No booking found"
        ELSE IF bookings[i].status # "Approved" THEN "Cannot make payment"
        ELSE "Payment successful"

\* make_payment: the message of the branch taken
PaymentOutcome(username, booking_id_in, choice) ==
    LET i == OwnBooking(username, Strip(booking_id_in))
    IN  IF i = 0 THEN "No booking found"
        ELSE IF bookings[i].status # "Approved" THEN "Cannot make payment"
        ELSE IF choice \notin {"1", "2", "3"} THEN "Payment cancelled"
        ELSE "Payment successful"

\* a slip: the flag of the bike is inverted instead of set
SetAvailableInverting(bike_list, bike_id, value) ==
    LET i == First(SelectSeq(Indexes(bike_list),
                             LAMBDA ix : bike_list[ix].bike_id = bike_id))
    IN  IF i = 0 THEN bike_list
        ELSE [bike_list EXCEPT ![i].available = ~bike_list[i].available]

\* for bike in bikes: if bike.bike_id == bike_id: bike.available = value; break
SetAvailable(bike_list, bike_id, value) ==
    LET i == First(SelectSeq(Indexes(bike_list),
                             LAMBDA ix : bike_list[ix].bike_id = bike_id))
    IN  IF i = 0 THEN bike_list
        ELSE [bike_list EXCEPT ![i].available = value]

\* Customer.make_payment, with BikeRentalSystem.save_all_data
MakePayment(booking_id_in, choice) ==
    LET i == OwnBooking(session.username, Strip(booking_id_in))
    IN  /\ session.user_type = "customer"
        /\ IF PaymentOutcome(session.username, booking_id_in, choice) = "Payment successful"
           THEN /\ bookings' = [bookings EXCEPT ![i].status = "Completed"]
                /\ bikes' = SetAvailable(bikes, bookings[i].bike_id, FALSE)
           ELSE UNCHANGED <<bikes, bookings>>
        /\ UNCHANGED <<users, session>>

-----------------------------------------------------------------------------
(* Admin dashboard *)

\* Admin.add_bike; bike_id is the value random.choices produced
AddBike(bike_id, name_in, color_in, plate_in, price_in, location_in) ==
    LET price_per_day == ParseFloat(Strip(price_in))
        bike == Bike(bike_id, Strip(name_in), Strip(color_in), Strip(plate_in),
                     price_per_day.val, Strip(location_in), TRUE)
    IN  /\ session.user_type = "admin"
        /\ IF ~price_per_day.ok
           THEN UNCHANGED bikes
           ELSE /\ Len(bikes) < MaxBikes
                /\ bikes' = Append(bikes, bike)
        /\ UNCHANGED <<users, bookings, session>>

\* update_bike: one prompt, "press Enter to keep current"
Provided(old, typed) == IF Strip(typed) # "" THEN Strip(typed) ELSE old

\* a slip: a price that float() rejects resets the price to 0
ProvidedPriceOrZero(old, typed) ==
    IF Strip(typed) = "" THEN old
    ELSE IF ParseFloat(Strip(typed)).ok THEN ParseFloat(Strip(typed)).val
    ELSE 0

\* update_bike: the price prompt, kept when empty or when float() raises
ProvidedPrice(old, typed) ==
    IF Strip(typed) # "" /\ ParseFloat(Strip(typed)).ok
    THEN ParseFloat(Strip(typed)).val
    ELSE old

\* a slip: the bike is rebuilt with the constructor's default available=True
UpdatedBikeDefaultAvailable(bike, name_in, color_in, plate_in, price_in, location_in) ==
    Bike(bike.bike_id,
         Provided(bike.name, name_in),
         Provided(bike.color, color_in),
         Provided(bike.plate_number, plate_in),
         ProvidedPrice(bike.price_per_day, price_in),
         Provided(bike.location, location_in),
         TRUE)

\* update_bike, "Enter new details": the bike after the five prompts
UpdatedBike(bike, name_in, color_in, plate_in, price_in, location_in) ==
    Bike(bike.bike_id,
         Provided(bike.name, name_in),
         Provided(bike.color, color_in),
         Provided(bike.plate_number, plate_in),
         ProvidedPrice(bike.price_per_day, price_in),
         Provided(bike.location, location_in),
         bike.available)

\* Admin.update_bike
UpdateBike(bike_id_in, name_in, color_in, plate_in, price_in, location_in) ==
    LET i == First(SelectSeq(Indexes(bikes),
                             LAMBDA ix : bikes[ix].bike_id = Strip(bike_id_in)))
    IN  /\ session.user_type = "admin"
        /\ IF i = 0
           THEN UNCHANGED bikes
           ELSE bikes' = [bikes EXCEPT ![i] =
                    UpdatedBike(bikes[i], name_in, color_in, plate_in, price_in,
                                location_in)]
        /\ UNCHANGED <<users, bookings, session>>

\* a slip: only Pending bookings count as active
ActiveBookingsPendingOnly(bike_id) ==
    SelectSeq(Indexes(bookings), LAMBDA ix :
                /\ bookings[ix].bike_id = bike_id
                /\ bookings[ix].status = "Pending")

\* delete_bike, "Check if bike has active bookings": indexes into bookings
ActiveBookings(bike_id) ==
    SelectSeq(Indexes(bookings), LAMBDA ix :
                /\ bookings[ix].bike_id = bike_id
                /\ bookings[ix].status \in {"Pending", "Approved"})

\* a slip: the active bookings of the bike are not looked at
DeleteOutcomeUnchecked(bike_id_in, confirm_in) ==
    LET bike_id == Strip(bike_id_in)
    IN  IF First(SelectSeq(Indexes(bikes),
                           LAMBDA ix : bikes[ix].bike_id = bike_id)) = 0
        THEN "No bike found"
        ELSE IF Lower(confirm_in) # "yes" THEN "Deletion cancelled"
        ELSE "Bike deleted"

\* delete_bike: the message of the branch taken
DeleteOutcome(bike_id_in, confirm_in) ==
    LET bike_id == Strip(bike_id_in)
    IN  IF First(SelectSeq(Indexes(bikes),
                           LAMBDA ix : bikes[ix].bike_id = bike_id)) = 0
        THEN "No bike found"
        ELSE IF Lower(confirm_in) # "yes" THEN "Deletion cancelled"
        ELSE IF ActiveBookings(bike_id) # <<>> THEN "Cannot delete bike"
        ELSE "Bike deleted"

\* Admin.delete_bike
DeleteBike(bike_id_in, confirm_in) ==
    /\ session.user_type = "admin"
    /\ IF DeleteOutcome(bike_id_in, confirm_in) = "Bike deleted"
       THEN bikes' = SelectSeq(bikes, LAMBDA b : b.bike_id # Strip(bike_id_in))
       ELSE UNCHANGED bikes
    /\ UNCHANGED <<users, bookings, session>>

\* manage_bookings, "Get pending bookings": indexes into bookings
PendingBookings ==
    SelectSeq(Indexes(bookings), LAMBDA ix : bookings[ix].status = "Pending")

\* manage_bookings: the message of the branch taken and the index in bookings
\* of selected_booking (0 when the handler changed nothing)
ManageOutcome(number_in, action) ==
    LET choice == ParseInt(number_in)
    IN  IF PendingBookings = <<>> THEN [msg |-> "No pending bookings", booking |-> 0]
        ELSE IF ~choice.ok THEN [msg |-> "Invalid input", booking |-> 0]
        ELSE IF choice.val = 0 THEN [msg |-> "", booking |-> 0]
        ELSE IF ~(1 <= choice.val /\ choice.val <= Len(PendingBookings))
             THEN [msg |-> "Invalid selection", booking |-> 0]
        ELSE IF action = "1"
             THEN [msg |-> "Booking approved", booking |-> PendingBookings[choice.val]]
        ELSE IF action = "2"
             THEN [msg |-> "Booking rejected", booking |-> PendingBookings[choice.val]]
        ELSE [msg |-> "Action cancelled", booking |-> 0]

\* a slip: a rejected booking is taken out of the list that is saved
ManageBookingsDroppingRejected(number_in, action) ==
    LET o == ManageOutcome(number_in, action)
    IN  /\ session.user_type = "admin"
        /\ IF o.msg = "Booking approved"
           THEN /\ bookings' = [bookings EXCEPT ![o.booking].status = "Approved"]
                /\ UNCHANGED bikes
           ELSE IF o.msg = "Booking rejected"
           THEN /\ bookings' = SelectSeq(bookings, LAMBDA b : b # bookings[o.booking])
                /\ bikes' = SetAvailable(bikes, bookings[o.booking].bike_id, TRUE)
           ELSE UNCHANGED <<bikes, bookings>>
        /\ UNCHANGED <<users, session>>

\* Admin.manage_bookings, with save_bookings / save_all_data
ManageBookings(number_in, action) ==
    LET o == ManageOutcome(number_in, action)
    IN  /\ session.user_type = "admin"
        /\ IF o.msg = "Booking approved"
           THEN /\ bookings' = [bookings EXCEPT ![o.booking].status = "Approved"]
                /\ UNCHANGED bikes
           ELSE IF o.msg = "Booking rejected"
           THEN /\ bookings' = [bookings EXCEPT ![o.booking].status = "Rejected"]
                /\ bikes' = SetAvailable(bikes, bookings[o.booking].bike_id, TRUE)
           ELSE UNCHANGED <<bikes, bookings>>
        /\ UNCHANGED <<users, session>>

-----------------------------------------------------------------------------
(* The program *)

MainMenuStep ==
    \/ \E r \in RegisterInputs : RegisterCustomer(r[1], r[2])
    \/ \E l \in LoginInputs : Login(l[1], l[2])
    \/ Logout

CustomerStep ==
    \/ \E id \in BookingIdInputs : ViewBookingStatus(id)
    \/ \E id \in BookingIdInputs, c \in PaymentInputs : MakePayment(id, c)

AdminStep ==
    \/ \E a \in AddAttempts :
            AddBike(a[1], "Hero Splendor", "Green", "MH06KL0001", a[2], "DOWNTOWN")
    \/ \E id \in BikeIdInputs, u \in UpdateInputs :
            UpdateBike(id, u[1], u[2], u[3], u[4], u[5])
    \/ \E id \in BikeIdInputs, c \in ConfirmInputs : DeleteBike(id, c)
    \/ \E m \in ManageInputs : ManageBookings(m[1], m[2])

Next ==
    \/ MainMenuStep
    \/ CustomerStep
    \/ AdminStep
    \/ \E a \in BookAttempts : BookBike(a[1], a[2])

\* every run of the program with at most MaxBookings bookings
Spec == Init /\ [][Next]_vars

NextWide ==
    \/ MainMenuStep
    \/ CustomerStep
    \/ AdminStep
    \/ \E a \in BookAttempts : BookBikeWide(a[1], a[2])

\* the same with one more booking, for the cases that take two bookings with the
\* bounds as written
SpecWide == Init /\ [][NextWide]_vars

-----------------------------------------------------------------------------
(* Persistence: to_dict / from_dict and load_* / save_* of BikeRentalSystem. *)
(* A file is absent, holds text that is not JSON, or holds JSON text; the    *)
(* value of JSON text is what json.load returns for it.  Strings, numbers,   *)
(* booleans, lists and dicts with string keys come back from json.load as    *)
(* json.dump wrote them, so the JSON text is kept as that value.             *)

MissingFile == [state |-> "missing", value |-> <<>>]
GarbledFile == [state |-> "garbled", value |-> <<>>]

\* with open(FILE, 'w') as f: json.dump(value, f, indent=2)
JsonDump(value) == [state |-> "json", value |-> value]

\* with open(FILE, 'r') as f: json.load(f)
JsonLoad(file) ==
    CASE file.state = "missing" -> [raised |-> "FileNotFoundError", value |-> <<>>]
      [] file.state = "garbled" -> [raised |-> "JSONDecodeError", value |-> <<>>]
      [] OTHER -> [raised |-> "none", value |-> file.value]

\* dict.get(key, default)
Get(data, key, default) == IF key \in DOMAIN data THEN data[key] ELSE default

\* what a load returns, or the exception that leaves it
Loaded(records) == [raised |-> "none", records |-> records]
Raised(exception) == [raised |-> exception, records |-> <<>>]

\* User.to_dict, which Admin inherits
UserToDict(user) ==
    [username |-> user.username, password |-> user.password,
     user_type |-> user.user_type]

\* Customer.to_dict: super().to_dict() updated with the profile
CustomerToDict(user) ==
    [name |-> user.name, phone |-> user.phone, email |-> user.email]
      @@ UserToDict(user)

\* user.to_dict() of an Admin or a Customer object
ToDict(user) ==
    IF user.user_type = "admin" THEN UserToDict(user) ELSE CustomerToDict(user)

\* a slip: the type tag is not read, every user is loaded as a Customer
UserFromDictAsCustomer(user_data) ==
    Customer(user_data.username, user_data.password,
             Get(user_data, "name", ""), Get(user_data, "phone", ""),
             Get(user_data, "email", ""))

\* load_users: the object built for one entry
UserFromDict(user_data) ==
    IF user_data.user_type = "admin"
    THEN Admin(user_data.username, user_data.password)
    ELSE Customer(user_data.username, user_data.password,
                  Get(user_data, "name", ""), Get(user_data, "phone", ""),
                  Get(user_data, "email", ""))

\* Bike.to_dict
BikeToDict(bike) ==
    [bike_id |-> bike.bike_id, name |-> bike.name, color |-> bike.color,
     plate_number |-> bike.plate_number, price_per_day |-> bike.price_per_day,
     location |-> bike.location, available |-> bike.available]

\* Bike.from_dict
BikeFromDict(data) ==
    Bike(data.bike_id, data.name, data.color, data.plate_number,
         data.price_per_day, data.location, data.available)

\* Booking.to_dict
BookingToDict(booking) ==
    [booking_id |-> booking.booking_id,
     customer_username |-> booking.customer_username,
     bike_id |-> booking.bike_id, pickup_location |-> booking.pickup_location,
     from_date |-> booking.from_date, to_date |-> booking.to_date,
     total_amount |-> booking.total_amount, status |-> booking.status]

\* Booking.from_dict
BookingFromDict(data) ==
    Booking(data.booking_id, data.customer_username, data.bike_id,
            data.pickup_location, data.from_date, data.to_date,
            data.total_amount, data.status)

\* the keys an entry is subscripted with; one that is absent raises KeyError
UserKeys == {"user_type", "username", "password"}
BikeKeys == DOMAIN BikeToDict(sample_bikes[1])
BookingKeys ==
    {"booking_id", "customer_username", "bike_id", "pickup_location",
     "from_date", "to_date", "total_amount", "status"}

\* some entry of the loaded list lacks one of the keys
LacksKey(value, keys) == \E i \in DOMAIN value : ~(keys \subseteq DOMAIN value[i])

\* BikeRentalSystem.save_users
SaveUsers(user_list) == JsonDump([i \in DOMAIN user_list |-> ToDict(user_list[i])])

\* BikeRentalSystem.load_users: except (FileNotFoundError, json.JSONDecodeError)
LoadUsers(file) ==
    LET users_data == JsonLoad(file)
    IN  IF users_data.raised # "none" THEN Loaded(<<>>)
        ELSE IF LacksKey(users_data.value, UserKeys) THEN Raised("KeyError")
        ELSE Loaded([i \in DOMAIN users_data.value |->
                        UserFromDict(users_data.value[i])])

\* BikeRentalSystem.save_bikes
SaveBikes(bike_list) == JsonDump([i \in DOMAIN bike_list |-> BikeToDict(bike_list[i])])

\* BikeRentalSystem.load_bikes
LoadBikes(file) ==
    LET bikes_data == JsonLoad(file)
    IN  IF bikes_data.raised # "none" THEN Loaded(<<>>)
        ELSE IF LacksKey(bikes_data.value, BikeKeys) THEN Raised("KeyError")
        ELSE Loaded([i \in DOMAIN bikes_data.value |->
                        BikeFromDict(bikes_data.value[i])])

\* BikeRentalSystem.save_bookings
SaveBookings(booking_list) ==
    JsonDump([i \in DOMAIN booking_list |-> BookingToDict(booking_list[i])])

\* BikeRentalSystem.load_bookings
LoadBookings(file) ==
    LET bookings_data == JsonLoad(file)
    IN  IF bookings_data.raised # "none" THEN Loaded(<<>>)
        ELSE IF LacksKey(bookings_data.value, BookingKeys) THEN Raised("KeyError")
        ELSE Loaded([i \in DOMAIN bookings_data.value |->
                        BookingFromDict(bookings_data.value[i])])

\* the lists of objects that are saved and loaded
alice == Customer("alice", "pw", "Alice", "5550100", "alice@example.org")
bob == Customer("bob", "pw", "", "", "")

UserLists ==
    { <<>>,
      <<Admin("admin", "admin123")>>,
      <<Admin("admin", "admin123"), alice>>,
      <<Admin("admin", "admin123"), bob, alice>>,
      <<alice, Admin("admin", "admin123")>> }

BikeLists ==
    { <<>>,
      sample_bikes,
      SubSeq(sample_bikes, 4, 5),
      [sample_bikes EXCEPT ![1].available = FALSE, ![1].price_per_day = 40],
      Append(sample_bikes,
             Bike("BIKE0001", "Hero Splendor", "Green", "MH06KL0001", 0 - 5,
                  "DOWNTOWN", TRUE)) }

booking1 ==
    Booking("BKG000001", "alice", "BIKE0001", "downtown", <<2024, 1, 1>>,
            <<2024, 1, 3>>, 75, "Pending")

BookingLists ==
    { <<>>,
      <<booking1>>,
      <<[booking1 EXCEPT !.status = "Approved"]>>,
      <<[booking1 EXCEPT !.status = "Completed"],
        [booking1 EXCEPT !.customer_username = "bob", !.status = "Rejected"]>>,
      <<booking1, [booking1 EXCEPT !.booking_id = "BKG000002", !.bike_id = "BIKE0004",
                                   !.total_amount = 66]>> }

\* files that are absent or do not hold a list of records: no file, text that is
\* not JSON, and a JSON list whose entry has only the key bike_id
UnreadableFiles ==
    {MissingFile, GarbledFile, JsonDump(<<[bike_id |-> "BIKE0001"]>>)}

\* save_users(user_list), then load_users() into users
SaveLoadUsers(user_list) ==
    /\ LoadUsers(SaveUsers(user_list)).raised = "none"
    /\ users' = LoadUsers(SaveUsers(user_list)).records
    /\ UNCHANGED <<bikes, bookings, session>>

\* save_bikes(bike_list), then load_bikes() into bikes
SaveLoadBikes(bike_list) ==
    /\ LoadBikes(SaveBikes(bike_list)).raised = "none"
    /\ bikes' = LoadBikes(SaveBikes(bike_list)).records
    /\ UNCHANGED <<users, bookings, session>>

\* save_bookings(booking_list), then load_bookings() into bookings
SaveLoadBookings(booking_list) ==
    /\ LoadBookings(SaveBookings(booking_list)).raised = "none"
    /\ bookings' = LoadBookings(SaveBookings(booking_list)).records
    /\ UNCHANGED <<users, bikes, session>>

\* load_users() from a file that does not hold a list of user records; an
\* exception that load_users does not catch ends the program
LoadUsersFrom(file) ==
    /\ LoadUsers(file).raised = "none"
    /\ users' = LoadUsers(file).records
    /\ UNCHANGED <<bikes, bookings, session>>

\* load_bikes() from such a file
LoadBikesFrom(file) ==
    /\ LoadBikes(file).raised = "none"
    /\ bikes' = LoadBikes(file).records
    /\ UNCHANGED <<users, bookings, session>>

\* load_bookings() from such a file
LoadBookingsFrom(file) ==
    /\ LoadBookings(file).raised = "none"
    /\ bookings' = LoadBookings(file).records
    /\ UNCHANGED <<users, bikes, session>>

\* initialize_files, "for file in files": a file that does not exist is created
\* holding the empty list
Created(file) == IF file.state = "missing" THEN JsonDump(<<>>) ELSE file

\* a slip: the sample bikes are saved whether or not a user was loaded
InitializedStoreAlwaysSeeding(users_file, bikes_file, bookings_file) ==
    LET loaded == LoadUsers(Created(users_file))
    IN  IF loaded.raised # "none"
        THEN [raised |-> loaded.raised, users |-> Created(users_file),
              bikes |-> Created(bikes_file), bookings |-> Created(bookings_file)]
        ELSE [raised |-> "none",
              users |-> IF loaded.records = <<>>
                        THEN SaveUsers(Append(loaded.records, Admin("admin", "admin123")))
                        ELSE Created(users_file),
              bikes |-> SaveBikes(sample_bikes),
              bookings |-> Created(bookings_file)]

\* BikeRentalSystem.initialize_files: the three files it leaves, or the
\* exception of load_users that leaves it after the files were created
InitializedStore(users_file, bikes_file, bookings_file) ==
    LET loaded == LoadUsers(Created(users_file))
    IN  IF loaded.raised # "none"
        THEN [raised |-> loaded.raised, users |-> Created(users_file),
              bikes |-> Created(bikes_file), bookings |-> Created(bookings_file)]
        ELSE IF loaded.records = <<>>
        THEN [raised |-> "none",
              users |-> SaveUsers(Append(loaded.records, Admin("admin", "admin123"))),
              bikes |-> SaveBikes(sample_bikes),
              bookings |-> Created(bookings_file)]
        ELSE [raised |-> "none", users |-> Created(users_file),
              bikes |-> Created(bikes_file), bookings |-> Created(bookings_file)]

\* the users file initialize_files may find: the one save_users wrote, or one
\* that is absent or does not hold a list of user records
UsersFiles == {SaveUsers(users)} \cup UnreadableFiles

\* run() is started again: initialize_files on the files of the collections,
\* with users_file as the users file, and the collections loaded afterwards
InitializeFiles(users_file) ==
    LET store == InitializedStore(users_file, SaveBikes(bikes), SaveBookings(bookings))
    IN  /\ store.raised = "none"
        /\ users' = LoadUsers(store.users).records
        /\ bikes' = LoadBikes(store.bikes).records
        /\ bookings' = LoadBookings(store.bookings).records
        /\ session' = MainMenu

NextStore ==
    \/ \E user_list \in UserLists : SaveLoadUsers(user_list)
    \/ \E bike_list \in BikeLists : SaveLoadBikes(bike_list)
    \/ \E booking_list \in BookingLists : SaveLoadBookings(booking_list)
    \/ \E file \in UnreadableFiles : LoadUsersFrom(file)
    \/ \E file \in UnreadableFiles : LoadBikesFrom(file)
    \/ \E file \in UnreadableFiles : LoadBookingsFrom(file)
    \/ \E users_file \in UsersFiles : InitializeFiles(users_file)

\* the persistence layer on its own, from the files initialize_files wrote:
\* lists of objects are saved and loaded, unreadable files are loaded, and the
\* program is started again
SpecStore == Init /\ [][NextStore]_vars

-----------------------------------------------------------------------------
(* Properties.  A booking is followed through the steps by its position in  *)
(* bookings, a bike by its position in bikes.                               *)

\* the bookings a step appends
NewBookings == DOMAIN bookings' \ DOMAIN bookings

\* the days of the date range [from_date, to_date], both ends counted
InclusiveDays(b) == Ordinal(b.to_date) - Ordinal(b.from_date) + 1

IsApprove(k) == bookings[k].status = "Pending" /\ bookings'[k].status = "Approved"
IsReject(k) == bookings[k].status = "Pending" /\ bookings'[k].status = "Rejected"
IsPay(k) == bookings[k].status = "Approved" /\ bookings'[k].status = "Completed"

\* C1: in every step each booking keeps its status or goes Pending->Approved or
\* Pending->Rejected in a step of the admin, or Approved->Completed in a step of
\* the customer who owns it; no booking disappears and a new booking starts
\* Pending.  So Completed is reached only from Approved, and nothing leaves
\* Rejected or Completed.
C1_StatusLifecycle ==
    [][ /\ Len(bookings') >= Len(bookings)
        /\ \A k \in DOMAIN bookings :
              \/ bookings'[k].status = bookings[k].status
              \/ (IsApprove(k) \/ IsReject(k)) /\ session.user_type = "admin"
              \/ /\ IsPay(k)
                 /\ session.user_type = "customer"
                 /\ bookings[k].customer_username = session.username
        /\ \A k \in NewBookings : bookings'[k].status = "Pending" ]_vars

\* C1 witness: a booking went all the way to Completed
C1_Witness == \E k \in DOMAIN bookings : bookings[k].status = "Completed"

\* C2 (as claimed): right after a payment no bike carrying the paid booking's
\* bike_id is available and there is such a bike; right after a rejection every
\* bike carrying the rejected booking's bike_id is available and there is one.
C2_AvailabilityAfterPayOrReject ==
    [][ \A k \in DOMAIN bookings :
          LET referenced == {j \in DOMAIN bikes' : bikes'[j].bike_id = bookings[k].bike_id}
          IN  /\ IsPay(k) =>
                   referenced # {} /\ \A j \in referenced : ~bikes'[j].available
              /\ IsReject(k) =>
                   referenced # {} /\ \A j \in referenced : bikes'[j].available ]_vars

\* the bookings that keep a bike from being deleted
HasActiveBooking(bike_id) ==
    \E k \in DOMAIN bookings : /\ bookings[k].bike_id = bike_id
                               /\ bookings[k].status \in {"Pending", "Approved"}

\* C3: for a bike id in the store and a confirmed deletion: while a Pending or
\* Approved booking references the id, delete_bike reports "Cannot delete bike"
\* and its step leaves bikes as it was; otherwise it reports "Bike deleted" and
\* after its step no bike carries the id.
C3_DeleteBlockedByActiveBooking ==
    [][ vars' # vars => \A j \in DOMAIN bikes :
          LET id == bikes[j].bike_id
          IN  /\ DeleteOutcome(id, "YES") =
                   (IF HasActiveBooking(id) THEN "Cannot delete bike" ELSE "Bike deleted")
              /\ DeleteBike(id, "YES") =>
                   IF HasActiveBooking(id)
                   THEN bikes' = bikes
                   ELSE \A i \in DOMAIN bikes' : bikes'[i].bike_id # id ]_vars

\* C3 witness: a bike was deleted although a booking references it, that booking
\* being Completed or Rejected
C3_Witness ==
    \E k \in DOMAIN bookings :
        /\ bookings[k].status \in {"Completed", "Rejected"}
        /\ \A j \in DOMAIN bikes : bikes[j].bike_id # bookings[k].bike_id

\* C4: a new booking's total_amount is the price_per_day, before the step, of a
\* bike carrying its bike_id, times the inclusive number of days of its range;
\* no step changes the total_amount of a booking that exists.
C4_TotalAmountFixedAtCreation ==
    [][ /\ \A k \in DOMAIN bookings :
              /\ k \in DOMAIN bookings'
              /\ bookings'[k].total_amount = bookings[k].total_amount
        /\ \A k \in NewBookings :
              \E j \in DOMAIN bikes :
                  /\ bikes[j].bike_id = bookings'[k].bike_id
                  /\ bookings'[k].total_amount =
                         bikes[j].price_per_day * InclusiveDays(bookings'[k]) ]_vars

\* C4 witness: the price of a booked bike was changed afterwards, and the
\* booking still carries the amount of the old price (75 = 25 * 3 days)
C4_Witness ==
    \E k \in DOMAIN bookings, j \in DOMAIN bikes :
        /\ bikes[j].bike_id = bookings[k].bike_id
        /\ bookings[k].total_amount = 75
        /\ InclusiveDays(bookings[k]) = 3
        /\ bikes[j].price_per_day = 40

\* C5 (as claimed): for the customer at the dashboard and every booking of
\* another customer, view_booking_status and make_payment with that booking's id
\* report "No booking found", and a make_payment step with that id leaves that
\* booking's status and the bikes as they were.
C5_OnlyOwnBookings ==
    [][ session.user_type = "customer" =>
          \A k \in DOMAIN bookings :
              bookings[k].customer_username # session.username =>
                  /\ ViewOutcome(session.username, bookings[k].booking_id)
                         = "No booking found"
                  /\ \A c \in PaymentInputs :
                        /\ PaymentOutcome(session.username, bookings[k].booking_id, c)
                               = "No booking found"
                        /\ MakePayment(bookings[k].booking_id, c) =>
                               /\ bookings'[k].status = bookings[k].status
                               /\ bikes' = bikes ]_vars

\* a bike that a request for this pickup location may be given
Matches(bike, pickup_location) ==
    bike.available /\ Lower(bike.location) = Lower(pickup_location)

\* the pickup locations the requests name
PickupInputs == {r.pickup : r \in BookRequests}

\* C6: a new booking is Pending, belongs to the customer at the dashboard, and
\* carries the id of a bike that before the step is in bikes, available and at
\* the pickup location up to case; while no bike matches a pickup location,
\* every request for it gets no bike and its step adds no booking.
C6_BookingOnlyForMatchingBike ==
    [][ vars' # vars =>
        /\ \A k \in NewBookings :
              /\ bookings'[k].status = "Pending"
              /\ session.user_type = "customer"
              /\ bookings'[k].customer_username = session.username
              /\ \E j \in DOMAIN bikes :
                     /\ bikes[j].bike_id = bookings'[k].bike_id
                     /\ Matches(bikes[j], bookings'[k].pickup_location)
        /\ \A p \in PickupInputs :
              (\A j \in DOMAIN bikes : ~Matches(bikes[j], Strip(p))) =>
                  \A a \in BookAttempts :
                      a[1].pickup = p =>
                          /\ BookOutcome(a[1], a[2]).bike = 0
                          /\ BookBike(a[1], a[2]) => bookings' = bookings ]_vars

\* C6 witness: a Pending booking whose pickup location is written differently
\* from the location of its bike ("downtown" for a bike at "Downtown")
C6_Witness ==
    \E k \in DOMAIN bookings, j \in DOMAIN bikes :
        /\ bookings[k].status = "Pending"
        /\ bikes[j].bike_id = bookings[k].bike_id
        /\ Matches(bikes[j], bookings[k].pickup_location)
        /\ bikes[j].location # bookings[k].pickup_location

\* the requests whose from date is strictly after their to date
DisorderedRequests ==
    {r \in BookRequests : /\ Strptime(r.from_date).ok /\ Strptime(r.to_date).ok
                          /\ Ordinal(r.from_date) > Ordinal(r.to_date)}

\* the attempts that submit one of them
DisorderedAttempts == {a \in BookAttempts : a[1] \in DisorderedRequests}

\* C7: a customer's request with from date after to date is declined for the
\* order of its dates, its step leaves bikes and bookings as they were, and no
\* step adds a booking whose from date is after its to date.
C7_DisorderedDatesDeclined ==
    [][ vars' # vars =>
        /\ session.user_type = "customer" =>
              \A a \in DisorderedAttempts :
                  /\ BookOutcome(a[1], a[2]) =
                         [msg |-> "From date must be before To date", bike |-> 0]
                  /\ BookBike(a[1], a[2]) => bikes' = bikes /\ bookings' = bookings
        /\ \A k \in NewBookings :
              Ordinal(bookings'[k].from_date) <= Ordinal(bookings'[k].to_date) ]_vars

\* C7 witness: a customer, with one booking made, is at the dashboard where the
\* plain request would be accepted and the same request with the to date before
\* the from date is declined for the order of its dates
C7_Witness ==
    /\ session.user_type = "customer"
    /\ \E k \in DOMAIN bookings : bookings[k].customer_username = session.username
    /\ \E r \in DisorderedRequests, now \in Nows :
          /\ BookOutcome(r, now).msg = "From date must be before To date"
          /\ BookOutcome([r EXCEPT !.to_date = <<2024, 1, 3>>], now).bike # 0

\* C8 (as claimed): a request is declined as being in the past only when its
\* from date is before the current date; the plain request made on its from
\* date, a matching bike being available, is accepted; a request whose from date
\* is before the current date gets no bike.
C8_PastDateOnlyBeforeToday ==
    session.user_type = "customer" =>
        \A r \in BookRequests, now \in Nows :
            LET from_day == Ordinal(r.from_date)
                o == BookOutcome(r, now)
            IN  Strptime(r.from_date).ok /\ Strptime(r.to_date).ok =>
                  /\ o.msg = "From date cannot be in the past" => from_day < now.day
                  /\ (/\ r = PlainRequest
                      /\ from_day = now.day
                      /\ \E j \in DOMAIN bikes : Matches(bikes[j], Strip(r.pickup)))
                        => o.msg = "Booking successful"
                  /\ from_day < now.day => o.bike = 0

\* the request that made booking b
RequestOf(b) ==
    [PlainRequest EXCEPT !.pickup = b.pickup_location, !.from_date = b.from_date,
                         !.to_date = b.to_date]

C10_AvailabilityChangesOnlyOnPayOrReject ==
    [][ IF Len(bikes') < Len(bikes)
        THEN \E i \in DOMAIN bikes :
                 bikes' = SelectSeq(bikes, LAMBDA b : b.bike_id # bikes[i].bike_id)
        ELSE \A j \in DOMAIN bikes :
                 /\ bikes'[j].bike_id = bikes[j].bike_id
                 /\ bikes'[j].available # bikes[j].available =>
                        \E k \in DOMAIN bookings :
                            /\ bookings[k].bike_id = bikes[j].bike_id
                            /\ \/ IsPay(k) /\ ~bikes'[j].available
                               \/ IsReject(k) /\ bikes'[j].available ]_vars

\* C10 witness: a paid bike is still unavailable after the admin changed its
\* price and added a bike
C10_Witness ==
    /\ Len(bikes) > Len(sample_bikes)
    /\ \E j \in DOMAIN bikes : ~bikes[j].available /\ bikes[j].price_per_day = 40

\* C11 (as claimed): no two bikes in the bikes collection share a bike_id.
C11_BikeIdsUnique ==
    \A i, j \in DOMAIN bikes : bikes[i].bike_id = bikes[j].bike_id => i = j

\* C12 (as claimed): no two bookings in the bookings collection share a
\* booking_id.
C12_BookingIdsUnique ==
    \A i, j \in DOMAIN bookings :
        bookings[i].booking_id = bookings[j].booking_id => i = j

\* the positions add_bike appends in a step
NewBikes == DOMAIN bikes' \ DOMAIN bikes

\* C13 (as claimed): every bike that a step appends has price_per_day >= 0 and
\* available = true, so a request with a negative price appends none.
C13_AddBikeValidatesPrice ==
    [][ \A j \in NewBikes : bikes'[j].price_per_day >= 0 /\ bikes'[j].available ]_vars

\* C14: a step of update_bike leaves users, bookings and the number of bikes as
\* they were; for an unknown id it leaves bikes as it was; otherwise it changes
\* only the first bike with that id, which keeps its bike_id and available, gets
\* each text field that was answered (non-empty after strip) and keeps the
\* others, and gets the price only when it was answered and float() accepts it.
C14_UpdateOverwritesOnlyProvided ==
    [][ vars' # vars =>
        \A id \in BikeIdInputs, u \in UpdateInputs :
            UpdateBike(id, u[1], u[2], u[3], u[4], u[5]) =>
                LET hits == {j \in DOMAIN bikes : bikes[j].bike_id = Strip(id)}
                    price == ParseFloat(Strip(u[4]))
                IN  /\ users' = users /\ bookings' = bookings
                    /\ DOMAIN bikes' = DOMAIN bikes
                    /\ hits = {} => bikes' = bikes
                    /\ \A i \in hits :
                          IF \E j \in hits : j < i
                          THEN bikes'[i] = bikes[i]
                          ELSE /\ bikes'[i].bike_id = bikes[i].bike_id
                               /\ bikes'[i].available = bikes[i].available
                               /\ bikes'[i].name =
                                    (IF Strip(u[1]) = "" THEN bikes[i].name ELSE Strip(u[1]))
                               /\ bikes'[i].color =
                                    (IF Strip(u[2]) = "" THEN bikes[i].color ELSE Strip(u[2]))
                               /\ bikes'[i].plate_number =
                                    (IF Strip(u[3]) = "" THEN bikes[i].plate_number
                                     ELSE Strip(u[3]))
                               /\ bikes'[i].price_per_day =
                                    (IF Strip(u[4]) = "" \/ ~price.ok
                                     THEN bikes[i].price_per_day ELSE price.val)
                               /\ bikes'[i].location =
                                    (IF Strip(u[5]) = "" THEN bikes[i].location
                                     ELSE Strip(u[5]))
                    /\ \A j \in DOMAIN bikes \ hits : bikes'[j] = bikes[j] ]_vars

\* C14 witness: a paid bike carries the new name, price and location, and the
\* color, plate number and id it had before
C14_Witness ==
    \E j \in DOMAIN bikes :
        /\ bikes[j] = Bike("BIKE0001", "Yamaha R15 V4", "Blue", "MH01AB1234", 40,
                           "DOWNTOWN", FALSE)

\* the positions register_customer appends in a step
NewUsers == DOMAIN users' \ DOMAIN users

\* C15: no two users share a username, before and after every step; a step
\* keeps the users it found, and a user it appends has a username that no user,
\* admin or customer, had before; a register_customer step with a username that
\* exists leaves users as it was.
C15_UsernamesUnique ==
    [][ /\ \A i, j \in DOMAIN users : users[i].username = users[j].username => i = j
        /\ \A i, j \in DOMAIN users' : users'[i].username = users'[j].username => i = j
        /\ \A i \in DOMAIN users : users'[i] = users[i]
        /\ \A j \in NewUsers, i \in DOMAIN users :
              users[i].username # users'[j].username
        /\ \A r \in RegisterInputs :
              UsernameExists(Strip(r[1])) /\ RegisterCustomer(r[1], r[2])
                  => users' = users ]_vars

\* C15 witness: at the main menu with two customers registered, where every
\* username register_customer is given exists, the admin's included
C15_Witness ==
    /\ session = MainMenu
    /\ Len(users) = 3
    /\ \A r \in RegisterInputs : UsernameExists(Strip(r[1]))

\* C16: each list of users, bikes or bookings, saved and then loaded, comes
\* back as the list that was saved (same length, same order, every field of
\* every record, the type tag of a user included), and so does the collection
\* in memory; a step that saves and loads a list leaves exactly that list.
C16_SaveLoadRoundTrip ==
    [][ /\ LoadUsers(SaveUsers(users)) = Loaded(users)
        /\ LoadBikes(SaveBikes(bikes)) = Loaded(bikes)
        /\ LoadBookings(SaveBookings(bookings)) = Loaded(bookings)
        /\ \A user_list \in UserLists :
              /\ LoadUsers(SaveUsers(user_list)) = Loaded(user_list)
              /\ SaveLoadUsers(user_list) => users' = user_list
        /\ \A bike_list \in BikeLists :
              /\ LoadBikes(SaveBikes(bike_list)) = Loaded(bike_list)
              /\ SaveLoadBikes(bike_list) => bikes' = bike_list
        /\ \A booking_list \in BookingLists :
              /\ LoadBookings(SaveBookings(booking_list)) = Loaded(booking_list)
              /\ SaveLoadBookings(booking_list) => bookings' = booking_list ]_vars

\* C16 witness: after a save and load of each collection: an admin and a
\* customer with a profile, a bike with a negative price after the sample
\* bikes, and two bookings
C16_Witness ==
    /\ \E i, j \in DOMAIN users : /\ users[i].user_type = "admin"
                                  /\ users[j].user_type = "customer"
                                  /\ users[j].name # ""
    /\ Len(bikes) > Len(sample_bikes)
    /\ Len(bookings) = 2

\* C18 (as claimed): load_users, load_bikes and load_bookings return the empty
\* list, raising nothing, for every file that is missing or does not hold a
\* list of records, and the collection loaded from it is empty.
C18_LoadDegradesToEmpty ==
    [][ \A file \in UnreadableFiles :
          /\ LoadUsers(file) = Loaded(<<>>)
          /\ LoadBikes(file) = Loaded(<<>>)
          /\ LoadBookings(file) = Loaded(<<>>)
          /\ LoadUsersFrom(file) => users' = <<>>
          /\ LoadBikesFrom(file) => bikes' = <<>>
          /\ LoadBookingsFrom(file) => bookings' = <<>> ]_vars

\* C17: for the bikes collection of every state, every bike id in it or typed
\* by the admin, and both values, setting the availability twice gives the
\* collection that setting it once gives.
C17_SetAvailableIdempotent ==
    \A bike_id \in {bikes[j].bike_id : j \in DOMAIN bikes} \cup BikeIdInputs,
       value \in BOOLEAN :
        SetAvailable(SetAvailable(bikes, bike_id, value), bike_id, value)
            = SetAvailable(bikes, bike_id, value)

\* C17 witness: a payment has made the bike of a Completed booking unavailable;
\* the update of a rejection would change the collection, the update of a
\* payment would not
C17_Witness ==
    \E k \in DOMAIN bookings :
        /\ bookings[k].status = "Completed"
        /\ SetAvailable(bikes, bookings[k].bike_id, TRUE) # bikes
        /\ SetAvailable(bikes, bookings[k].bike_id, FALSE) = bikes

\* C19: a make_payment step changes neither bookings nor bikes when the
\* customer has no booking with the id entered, when the first such booking is
\* not Approved, or when the choice is not one of the payment methods 1-3.
C19_DeclinedPaymentChangesNothing ==
    [][ vars' # vars =>
        \A id \in BookingIdInputs, c \in PaymentInputs :
            LET own == {k \in DOMAIN bookings :
                          /\ bookings[k].booking_id = Strip(id)
                          /\ bookings[k].customer_username = session.username}
                declined ==
                    \/ own = {}
                    \/ \E k \in own : /\ \A j \in own : k <= j
                                      /\ bookings[k].status # "Approved"
                    \/ c \notin {"1", "2", "3"}
            IN  declined /\ MakePayment(id, c) =>
                    bookings' = bookings /\ bikes' = bikes ]_vars

\* C19 witness: a customer is at the dashboard with a booking of their own that
\* was rejected, for which every choice of make_payment is declined
C19_Witness ==
    /\ session.user_type = "customer"
    /\ \E k \in DOMAIN bookings :
          /\ bookings[k].customer_username = session.username
          /\ bookings[k].status = "Rejected"
          /\ \A c \in PaymentInputs :
                PaymentOutcome(session.username, bookings[k].booking_id, c)
                    = "Cannot make payment"

\* C20: every booking that is Pending or Approved carries the bike_id of a bike
\* in the bikes collection.
C20_ActiveBookingsReferenceBikes ==
    \A k \in DOMAIN bookings :
        bookings[k].status \in {"Pending", "Approved"} =>
            \E j \in DOMAIN bikes : bikes[j].bike_id = bookings[k].bike_id

\* C20 witness: the admin is at the dashboard while a booking is Approved, and
\* deleting the bike of that booking would be declined
C20_Witness ==
    /\ session.user_type = "admin"
    /\ \E k \in DOMAIN bookings :
          /\ bookings[k].status = "Approved"
          /\ bookings[k].bike_id \in BikeIdInputs
          /\ DeleteOutcome(bookings[k].bike_id, "YES") = "Cannot delete bike"

\* C21 (as claimed): every bike in the bikes collection whose bike_id is that
\* of a Completed booking has available = FALSE, in every state.
C21_PaidBikeStaysUnavailable ==
    \A k \in DOMAIN bookings :
        bookings[k].status = "Completed" =>
            \A j \in DOMAIN bikes :
                bikes[j].bike_id = bookings[k].bike_id => ~bikes[j].available

\* the dates of two bookings share a day: neither ends before the other starts
Overlap(a, b) ==
    /\ Ordinal(a.from_date) <= Ordinal(b.to_date)
    /\ Ordinal(b.from_date) <= Ordinal(a.to_date)

\* C22 (as claimed): no two Completed bookings carry the same bike_id with date
\* ranges [from_date, to_date] that share a day.
C22_NoDoublePaidDays ==
    \A k, l \in DOMAIN bookings :
        /\ k # l
        /\ bookings[k].status = "Completed"
        /\ bookings[l].status = "Completed"
        /\ bookings[k].bike_id = bookings[l].bike_id
        => ~Overlap(bookings[k], bookings[l])

\* the bookings whose status a step changes
StatusChanged == {k \in DOMAIN bookings \cap DOMAIN bookings' :
                    bookings'[k].status # bookings[k].status}

StoredFiles ==
    [raised |-> "none", users |-> SaveUsers(users), bikes |-> SaveBikes(bikes),
     bookings |-> SaveBookings(bookings)]

\* C24: for every users file initialize_files may find beside the bikes and
\* bookings of the state: when load_users returns the empty list, the files
\* left hold the default admin alone and the five sample bikes, and the
\* bookings as they were; when it returns at least one user, the three files
\* are left as they were; running initialize_files on the files it left
\* leaves them again; and a step of initialize_files gives the collections
\* accordingly.
C24_InitializeSeedsOnlyEmptyStore ==
    [][ \A users_file \in UsersFiles :
          LET loaded == LoadUsers(Created(users_file))
              store == InitializedStore(users_file, SaveBikes(bikes),
                                        SaveBookings(bookings))
          IN  /\ loaded = Loaded(<<>>) =>
                    /\ store = [StoredFiles EXCEPT
                                  !.users = SaveUsers(<<Admin("admin", "admin123")>>),
                                  !.bikes = SaveBikes(sample_bikes)]
                    /\ InitializeFiles(users_file) =>
                          /\ users' = <<Admin("admin", "admin123")>>
                          /\ bikes' = sample_bikes
                          /\ bookings' = bookings
              /\ loaded.raised = "none" /\ loaded.records # <<>> =>
                    /\ store = StoredFiles
                    /\ InitializeFiles(users_file) =>
                          UNCHANGED <<users, bikes, bookings>>
              /\ store.raised = "none" =>
                    InitializedStore(store.users, store.bikes, store.bookings) = store
      ]_vars

\* C24 witness: a store with a customer beside the admin, bikes that are not
\* the sample bikes and two bookings, which initialize_files leaves as it is
C24_Witness ==
    /\ Len(users) >= 2
    /\ bikes # sample_bikes
    /\ Len(bookings) = 2
    /\ InitializedStore(SaveUsers(users), SaveBikes(bikes), SaveBookings(bookings))
          = StoredFiles

====
